---- MODULE Spec2Model ----
(***************************************************************************)
(* A model of src/app.py: the chat-completion client query_chat_api (one   *)
(* bounded retry loop around requests.post) and the Streamlit script that  *)
(* calls it and keeps its results in st.session_state.                     *)
(*                                                                         *)
(* Text is modelled by TLA+ strings, so str.strip and str.startswith are   *)
(* computed character by character.  A JSON body is a tagged value.  A     *)
(* Python exception is a record [class, msg] and an except clause matches  *)
(* by the class hierarchy.                                                 *)
(***************************************************************************)
EXTENDS Integers, Sequences, FiniteSets, TLC

VARIABLES call, session, origin, last, peer

vars == <<call, session, origin, last, peer>>

(***************************************************************************)
(* Bounds of the model.                                                    *)
(***************************************************************************)
\* Largest max_retries a direct caller passes.
MaxRetries == 3
\* Longest keyword list the session is driven to.
MaxKeywords == 2

(***************************************************************************)
(* Python text: str.strip() and str.startswith().                          *)
(***************************************************************************)
\* The characters str.strip() removes, as far as the model's texts use them.
Whitespace == {" ", "\t", "\n", "\r", "\f"}

RECURSIVE LStrip(_)
LStrip(s) ==
    IF s # "" /\ Head(s) \in Whitespace THEN LStrip(Tail(s)) ELSE s

RECURSIVE RStrip(_)
RStrip(s) ==
    IF s # "" /\ SubSeq(s, Len(s), Len(s)) \in Whitespace
    THEN RStrip(SubSeq(s, 1, Len(s) - 1))
    ELSE s

\* A mutant of Strip: only the left side is trimmed.
StripLeftOnly(s) == LStrip(s)

\* str.strip()
Strip(s) == RStrip(LStrip(s))

\* str.startswith(prefix)
StartsWith(s, prefix) ==
    Len(s) >= Len(prefix) /\ SubSeq(s, 1, Len(prefix)) = prefix

(***************************************************************************)
(* Python exceptions: class hierarchy and except-clause matching.          *)
(***************************************************************************)
\* The direct base classes of the exception classes the loop body can raise
\* (requests.exceptions and the builtins).
Bases ==
    [ReadTimeout       |-> {"Timeout"},
     ConnectTimeout    |-> {"ConnectionError", "Timeout"},
     Timeout           |-> {"RequestException"},
     ConnectionError   |-> {"RequestException"},
     TooManyRedirects  |-> {"RequestException"},
     JSONDecodeError   |-> {"RequestException"},
     RequestException  |-> {"Exception"},
     KeyError          |-> {"Exception"},
     TypeError         |-> {"Exception"},
     AttributeError    |-> {"Exception"},
     Exception         |-> {"BaseException"},
     BaseException     |-> {}]

RECURSIVE IsSubclass(_, _)
IsSubclass(cls, base) ==
    \/ cls = base
    \/ \E b \in Bases[cls] : IsSubclass(b, base)

Exc(cls, msg) == [class |-> cls, msg |-> msg]

(***************************************************************************)
(* Evaluation results: a value, or a raised exception.                     *)
(***************************************************************************)
Val(v) == [ok |-> TRUE, val |-> v]
Err(cls, msg) == [ok |-> FALSE, exc |-> Exc(cls, msg)]

(***************************************************************************)
(* JSON values as response.json() returns them.                            *)
(***************************************************************************)
JObject(f) == [t |-> "dict", v |-> f]
JArray(s)  == [t |-> "list", v |-> s]
JString(s) == [t |-> "str", v |-> s]
JNull      == [t |-> "NoneType", v |-> ""]

\* key in x
\* A mutant of JsonIn: the membership test is skipped, every key is taken
\* to be present.
JsonInAlwaysTrue(key, x) == Val(TRUE)

JsonIn(key, x) ==
    CASE x.t = "dict" -> Val(key \in DOMAIN x.v)
      [] x.t = "list" -> Val(\E i \in 1..Len(x.v) :
                                x.v[i].t = "str" /\ x.v[i].v = key)
      [] x.t = "str"  -> Val(\E i \in 1..(Len(x.v) + 1 - Len(key)) :
                                SubSeq(x.v, i, i + Len(key) - 1) = key)
      [] OTHER -> Err("TypeError",
                      "argument of type '" \o x.t \o "' is not iterable")

\* len(x)
JsonLen(x) ==
    CASE x.t = "dict" -> Val(Cardinality(DOMAIN x.v))
      [] x.t \in {"list", "str"} -> Val(Len(x.v))
      [] OTHER -> Err("TypeError",
                      "object of type '" \o x.t \o "' has no len()")

\* x[key] for a text key
JsonItem(x, key) ==
    CASE x.t = "dict" ->
            IF key \in DOMAIN x.v THEN Val(x.v[key])
            ELSE Err("KeyError", "'" \o key \o "'")
      [] x.t = "list" ->
            Err("TypeError", "list indices must be integers or slices, not str")
      [] x.t = "str" ->
            Err("TypeError", "string indices must be integers, not 'str'")
      [] OTHER ->
            Err("TypeError", "'" \o x.t \o "' object is not subscriptable")

\* x[0], evaluated only where len(x) > 0 has been established
JsonFirst(x) ==
    CASE x.t = "list" -> Val(x.v[1])
      [] x.t = "str"  -> Val(JString(SubSeq(x.v, 1, 1)))
      [] x.t = "dict" -> Err("KeyError", "0")
      [] OTHER -> Err("TypeError", "'" \o x.t \o "' object is not subscriptable")

\* x.strip()
JsonStrip(x) ==
    IF x.t = "str" THEN Val(Strip(x.v))
    ELSE Err("AttributeError",
             "'" \o x.t \o "' object has no attribute 'strip'")

\* str(x) as an f-string renders it; only text payloads occur in the model
JsonStr(x) == IF x.t = "str" THEN x.v ELSE x.t

(***************************************************************************)
(* HTTP: what one requests.post(...) can do.                               *)
(***************************************************************************)
NoExc == Exc("", "")

\* A response object: its status_code, its text and what its json() does.
HttpResponse(status, text, json) ==
    [raised |-> FALSE, exc |-> NoExc, status |-> status, text |-> text,
     json |-> json]

\* requests.post raised instead of returning.
PostRaised(cls, msg) ==
    [raised |-> TRUE, exc |-> Exc(cls, msg), status |-> 0, text |-> "",
     json |-> Val(JNull)]

NotJson == Err("JSONDecodeError", "Expecting value: line 1 column 1 (char 0)")

\* The tag of a response in the trace: the status code, or the exception class.
Tag(response) ==
    IF response.raised THEN response.exc.class ELSE ToString(response.status)

(***************************************************************************)
(* query_chat_api: the values one pass through the loop body produces.     *)
(***************************************************************************)
Return(kind, text) == [do |-> "return", kind |-> kind, text |-> text]
Retry(warning, secs) == [do |-> "retry", warning |-> warning, secs |-> secs]
Raise(exc) == [do |-> "raise", exc |-> exc]

\* f"(Attempt {attempt + 1}/{max_retries})"
AttemptOf(attempt, max_retries) ==
    "(Attempt " \o ToString(attempt + 1) \o "/" \o ToString(max_retries) \o ")"

\* A mutant of HasAttemptsLeft: the last attempt is retried too.
HasAttemptsLeftOffByOne(attempt, max_retries) == attempt < max_retries

\* attempt < max_retries - 1
HasAttemptsLeft(attempt, max_retries) == attempt < max_retries - 1

\* status_code == 200
On200(response) ==
    IF ~response.json.ok THEN Raise(response.json.exc)
    ELSE
    LET result == response.json.val
        has == JsonIn("choices", result)
    IN  IF ~has.ok THEN Raise(has.exc)
        ELSE IF ~has.val THEN Return("Failed", "Error: No response generated")
        ELSE
        LET choices == JsonItem(result, "choices")
        IN  IF ~choices.ok THEN Raise(choices.exc)
            ELSE
            LET n == JsonLen(choices.val)
            IN  IF ~n.ok THEN Raise(n.exc)
                ELSE IF ~(n.val > 0)
                THEN Return("Failed", "Error: No response generated")
                ELSE
                LET first == JsonFirst(choices.val)
                IN  IF ~first.ok THEN Raise(first.exc)
                    ELSE
                    LET message == JsonItem(first.val, "message")
                    IN  IF ~message.ok THEN Raise(message.exc)
                        ELSE
                        LET content == JsonItem(message.val, "content")
                        IN  IF ~content.ok THEN Raise(content.exc)
                            ELSE
                            LET stripped == JsonStrip(content.val)
                            IN  IF ~stripped.ok THEN Raise(stripped.exc)
                                ELSE Return("Ok", stripped.val)

\* A mutant of RateLimitWait: the wait does not grow with the attempt.
RateLimitWaitFlat(attempt) == 3

\* wait_time = (attempt + 1) * 3
RateLimitWait(attempt) == (attempt + 1) * 3

\* status_code == 429
On429(attempt, max_retries) ==
    IF HasAttemptsLeft(attempt, max_retries)
    THEN Retry("Rate limit hit. Waiting " \o ToString(RateLimitWait(attempt))
                  \o " seconds... " \o AttemptOf(attempt, max_retries),
               RateLimitWait(attempt))
    ELSE Return("Failed",
                "Error: Rate limit exceeded. Please wait a minute and try again.")

\* A mutant of On401: an invalid token is retried like a loading model.
On401Retried(attempt, max_retries) ==
    IF HasAttemptsLeft(attempt, max_retries)
    THEN Retry("Invalid API token. Retrying... "
                  \o AttemptOf(attempt, max_retries), 5)
    ELSE Return("Failed",
                "Error: Invalid API token. Please check your Hugging Face API key.")

\* status_code == 401
On401(attempt, max_retries) ==
    Return("Failed",
           "Error: Invalid API token. Please check your Hugging Face API key.")

\* A mutant of On503: the wait escalates as it does for 429.
On503Escalating(attempt, max_retries) ==
    IF HasAttemptsLeft(attempt, max_retries)
    THEN Retry("Model is loading... Retrying in 5 seconds "
                  \o AttemptOf(attempt, max_retries), (attempt + 1) * 5)
    ELSE Return("Failed",
                "Error: Model is currently unavailable. Try a different model.")

\* status_code == 503
On503(attempt, max_retries) ==
    IF HasAttemptsLeft(attempt, max_retries)
    THEN Retry("Model is loading... Retrying in 5 seconds "
                  \o AttemptOf(attempt, max_retries), 5)
    ELSE Return("Failed",
                "Error: Model is currently unavailable. Try a different model.")

\* response.json().get('error', response.text)
ErrorMsg(response) ==
    IF ~response.json.ok THEN response.json
    ELSE
    LET body == response.json.val
    IN  IF body.t # "dict"
        THEN Err("AttributeError",
                 "'" \o body.t \o "' object has no attribute 'get'")
        ELSE IF "error" \in DOMAIN body.v THEN Val(JsonStr(body.v["error"]))
        ELSE Val(response.text)

\* any other status_code
OnOtherStatus(response) ==
    LET error_msg == ErrorMsg(response)
    IN  IF ~error_msg.ok THEN Raise(error_msg.exc)
        ELSE Return("Failed",
                    "Error: API returned status " \o ToString(response.status)
                       \o " - " \o error_msg.val)

\* The try block of one loop pass.
TryBlock(response, attempt, max_retries) ==
    IF response.raised THEN Raise(response.exc)
    ELSE CASE response.status = 200 -> On200(response)
           [] response.status = 429 -> On429(attempt, max_retries)
           [] response.status = 401 -> On401(attempt, max_retries)
           [] response.status = 503 -> On503(attempt, max_retries)
           [] OTHER -> OnOtherStatus(response)

\* A mutant of OnTimeout: a timeout waits as an unexpected fault does.
OnTimeoutShortWait(attempt, max_retries) ==
    IF HasAttemptsLeft(attempt, max_retries)
    THEN Retry("Request timed out. Retrying... "
                  \o AttemptOf(attempt, max_retries), 2)
    ELSE Return("Failed", "Error: Request timed out after multiple attempts.")

\* except requests.exceptions.Timeout
OnTimeout(attempt, max_retries) ==
    IF HasAttemptsLeft(attempt, max_retries)
    THEN Retry("Request timed out. Retrying... "
                  \o AttemptOf(attempt, max_retries), 3)
    ELSE Return("Failed", "Error: Request timed out after multiple attempts.")

\* A mutant of OnConnectionError: the wait grows with the attempt index, as
\* it does for a rate limit.
OnConnectionErrorEscalating(attempt, max_retries) ==
    IF HasAttemptsLeft(attempt, max_retries)
    THEN Retry("Connection error. Retrying... "
                  \o AttemptOf(attempt, max_retries), (attempt + 1) * 3)
    ELSE Return("Failed",
                "Error: Could not connect to Hugging Face API. Check your internet connection.")

\* except requests.exceptions.ConnectionError
OnConnectionError(attempt, max_retries) ==
    IF HasAttemptsLeft(attempt, max_retries)
    THEN Retry("Connection error. Retrying... "
                  \o AttemptOf(attempt, max_retries), 3)
    ELSE Return("Failed",
                "Error: Could not connect to Hugging Face API. Check your internet connection.")

\* except Exception as e
OnException(exc, attempt, max_retries) ==
    IF HasAttemptsLeft(attempt, max_retries)
    THEN Retry("Unexpected error: " \o exc.msg \o ". Retrying... "
                  \o AttemptOf(attempt, max_retries), 2)
    ELSE Return("Failed", "Error: " \o exc.msg)

\* A mutant of ExceptClauses: the final "except Exception" clause is missing.
ExceptClausesNarrow(exc, attempt, max_retries) ==
    IF IsSubclass(exc.class, "Timeout")
    THEN OnTimeout(attempt, max_retries)
    ELSE IF IsSubclass(exc.class, "ConnectionError")
    THEN OnConnectionError(attempt, max_retries)
    ELSE Raise(exc)

\* The except clauses, tried in the order they are written; an exception no
\* clause matches leaves the function.
ExceptClauses(exc, attempt, max_retries) ==
    IF IsSubclass(exc.class, "Timeout")
    THEN OnTimeout(attempt, max_retries)
    ELSE IF IsSubclass(exc.class, "ConnectionError")
    THEN OnConnectionError(attempt, max_retries)
    ELSE IF IsSubclass(exc.class, "Exception")
    THEN OnException(exc, attempt, max_retries)
    ELSE Raise(exc)

\* One pass through the body of the for loop.
LoopBody(response, attempt, max_retries) ==
    LET tried == TryBlock(response, attempt, max_retries)
    IN  IF tried.do = "raise"
        THEN ExceptClauses(tried.exc, attempt, max_retries)
        ELSE tried

(***************************************************************************)
(* query_chat_api as a state machine: one activation of the function.      *)
(***************************************************************************)
NoPayload ==
    [messages |-> <<>>, model |-> "", temperature |-> 0, max_tokens |-> 0,
     stream |-> FALSE]

NoFrame == [title |-> "", keywords |-> ""]

\* No activation: the state before the first call and after a script rerun.
Idle ==
    [pc |-> "idle", caller |-> "none", max_retries |-> 0, attempt |-> 0,
     payload |-> NoPayload, frame |-> NoFrame, trace |-> <<>>,
     result |-> "", kind |-> "none"]

\* What the activation did, in order: each requests.post with what came back,
\* each st.warning and each time.sleep.
PostEvent(attempt, response) ==
    [ev |-> "post", n |-> attempt, text |-> Tag(response), response |-> response]
WarningEvent(attempt, text) == [ev |-> "warning", n |-> attempt, text |-> text]
SleepEvent(secs) == [ev |-> "sleep", n |-> secs, text |-> ""]

\* A mutant of LoopHead: the body is entered without testing the range, as
\* in a do-while loop.
LoopHeadDoWhile(c) == c

\* The head of "for attempt in range(max_retries)": the next pass, or the
\* statement after the loop.
LoopHead(c) ==
    IF c.attempt < c.max_retries THEN c
    ELSE [c EXCEPT !.pc = "returned", !.kind = "Failed",
                   !.result = "Error: All retry attempts failed."]

\* A mutant of QueryChatApi: the attempt counter is shared and not reset on
\* entry, a call starts at the index the peer activation has reached.
QueryChatApiSharedCounter(caller, frame, messages, model, max_retries, temperature, max_tokens) ==
    LoopHead([pc |-> "running", caller |-> caller, max_retries |-> max_retries,
              attempt |-> peer.attempt,
              payload |-> [messages |-> messages, model |-> model,
                           temperature |-> temperature,
                           max_tokens |-> max_tokens, stream |-> FALSE],
              frame |-> frame, trace |-> <<>>, result |-> "", kind |-> "none"])

\* Entry of query_chat_api: headers and payload are built, the loop starts.
\* temperature is held in tenths.
QueryChatApi(caller, frame, messages, model, max_retries, temperature, max_tokens) ==
    LoopHead([pc |-> "running", caller |-> caller, max_retries |-> max_retries,
              attempt |-> 0,
              payload |-> [messages |-> messages, model |-> model,
                           temperature |-> temperature,
                           max_tokens |-> max_tokens, stream |-> FALSE],
              frame |-> frame, trace |-> <<>>, result |-> "", kind |-> "none"])

\* One pass of the loop on the activation c, given what requests.post did.
AttemptStep(c, response) ==
    LET o == LoopBody(response, c.attempt, c.max_retries)
        posted == Append(c.trace, PostEvent(c.attempt, response))
    IN  CASE o.do = "return" ->
                [c EXCEPT !.pc = "returned", !.trace = posted,
                          !.result = o.text, !.kind = o.kind]
          [] o.do = "retry" ->
                LoopHead([c EXCEPT !.trace = posted \o
                                      <<WarningEvent(c.attempt, o.warning),
                                        SleepEvent(o.secs)>>,
                                   !.attempt = @ + 1])
          [] o.do = "raise" ->
                [c EXCEPT !.pc = "raised", !.trace = posted,
                          !.result = o.exc.class, !.kind = "Raised"]

\* Readings of the trace.
Posts(c) == SelectSeq(c.trace, LAMBDA e : e.ev = "post")
Sleeps(c) == SelectSeq(c.trace, LAMBDA e : e.ev = "sleep")
Warnings(c) == SelectSeq(c.trace, LAMBDA e : e.ev = "warning")
Attempts(c) == Len(Posts(c))
Waits(c) == [i \in 1..Len(Sleeps(c)) |-> Sleeps(c)[i].n]

(***************************************************************************)
(* The callers: generate_titles, generate_blog_content.                    *)
(***************************************************************************)
MODEL_OPTIONS ==
    <<"Kwaipilot/KAT-Dev:novita",
      "mistralai/Mixtral-8x7B-Instruct-v0.1",
      "meta-llama/Llama-2-70b-chat-hf",
      "NousResearch/Nous-Hermes-2-Mixtral-8x7B-DPO",
      "openchat/openchat-3.5-1210">>

\* max_retries=3 in the signature of query_chat_api
DefaultMaxRetries == 3
\* temperature=0.7 and max_tokens=500 in the signature (temperature in tenths)
DefaultTemperature == 7
DefaultMaxTokens == 500

Message(role, content) == [role |-> role, content |-> content]

\* A mutant of Min: the cap is lost.
MinUncapped(a, b) == a

Min(a, b) == IF a <= b THEN a ELSE b

\* generate_titles(topic, model)
generate_titles(topic, model) ==
    QueryChatApi("titles", NoFrame,
        <<Message("system",
                  "You are a creative blog title generator. Generate exactly 10 numbered blog titles, one per line."),
          Message("user",
                  "Generate 10 creative, attention-grabbing blog post titles about '"
                     \o topic
                     \o "'. Target audience: beginners and tech enthusiasts. Format: numbered list 1-10, no explanations.")>>,
        model, DefaultMaxRetries, 8, 400)

\* generate_blog_content(title, keywords, blog_length, model); frame holds the
\* locals of the calling handler that outlive the call.
generate_blog_content(frame, title, keywords, blog_length, model) ==
    QueryChatApi("blog", frame,
        <<Message("system",
                  "You are a professional blog writer. Write informative, engaging, and well-structured blog posts of approximately "
                     \o ToString(blog_length) \o " words."),
          Message("user",
                  "Write a comprehensive blog post with the following specifications:\n\nTitle: "
                     \o title \o "\nKeywords to include: " \o keywords
                     \o "\nTarget length: " \o ToString(blog_length)
                     \o " words\nTarget audience: beginners\n\nStructure your blog post with:\n1. An engaging introduction\n2. Well-organized main content with clear points\n3. A strong conclusion\n\nMake it informative, easy to understand, and engaging.")>>,
        model, DefaultMaxRetries, 7, Min(blog_length * 2, 2000))

(***************************************************************************)
(* st.session_state: a mapping from the keys present to their values.      *)
(***************************************************************************)
Has(key) == key \in DOMAIN session

Put(ss, key, value) ==
    [k \in DOMAIN ss \cup {key} |-> IF k = key THEN value ELSE ss[k]]

Del(ss, key) == [k \in DOMAIN ss \ {key} |-> ss[k]]

\* Which kind of client outcome each stored result came from (history only).
NoOrigin == [title_results |-> "none", blog_results |-> "none"]

\* ', '.join(keywords)
RECURSIVE Join(_)
Join(keywords) ==
    IF keywords = <<>> THEN ""
    ELSE IF Len(keywords) = 1 THEN keywords[1]
    ELSE keywords[1] \o ", " \o Join(Tail(keywords))

\* The display of the title results: st.error, or st.success with the text area.
TitleShownAsError ==
    Has("title_results") /\ StartsWith(session["title_results"], "Error")
TitleShownAsContent ==
    Has("title_results") /\ ~StartsWith(session["title_results"], "Error")

\* The display of the blog results: st.error, or the post with its downloads.
BlogShownAsError ==
    Has("blog_results") /\ StartsWith(session["blog_results"].content, "Error")
BlogShownAsContent ==
    Has("blog_results") /\ ~StartsWith(session["blog_results"].content, "Error")

(***************************************************************************)
(* The inputs the model draws from.                                        *)
(***************************************************************************)
\* choices[0].message.content of a successful completion
Contents == {" Hello blog \n", "Error handling tips", "\t \n"}

Completion(content) ==
    JObject([choices |-> JArray(<<JObject([message |->
        JObject([role |-> JString("assistant"), content |-> content])])>>)])

\* 200 with a non-empty choices array whose first choice carries text
OkResponses == {HttpResponse(200, "", Val(Completion(JString(c)))) : c \in Contents}

\* 200 with choices empty, choices missing, or a body that is a JSON array
EmptyResponses ==
    {HttpResponse(200, "", Val(JObject([choices |-> JArray(<<>>)]))),
     HttpResponse(200, "", Val(JObject([id |-> JString("x")]))),
     HttpResponse(200, "", Val(JArray(<<>>)))}

\* 200 with a body the extraction faults on: not JSON, JSON null, a first
\* choice without a message, a null content
BrokenResponses ==
    {HttpResponse(200, "<html>", NotJson),
     HttpResponse(200, "null", Val(JNull)),
     HttpResponse(200, "", Val(JObject([choices |-> JArray(<<JObject([index |-> JString("0")])>>)]))),
     HttpResponse(200, "", Val(Completion(JNull)))}

\* Statuses that are none of 200, 429, 401, 503
OtherStatuses == {400, 500, 502}

\* Bodies of such responses: an object with an error, an object without one,
\* text that is not JSON, a JSON array
OtherBodies ==
    {[text |-> "{\"error\": \"overloaded\"}",
      json |-> Val(JObject([error |-> JString("overloaded")]))],
     [text |-> "{}", json |-> Val(JObject([id |-> JString("x")]))],
     [text |-> "<html>Bad Gateway</html>", json |-> NotJson],
     [text |-> "[]", json |-> Val(JArray(<<>>))]}

OtherResponses ==
    {HttpResponse(st, b.text, b.json) : st \in OtherStatuses, b \in OtherBodies}

TimeoutFaults ==
    {PostRaised("ReadTimeout", "Read timed out. (read timeout=60)"),
     PostRaised("ConnectTimeout", "Connection to router.huggingface.co timed out.")}

ConnectionFaults == {PostRaised("ConnectionError", "Connection aborted.")}

OtherFaults == {PostRaised("TooManyRedirects", "Exceeded 30 redirects.")}

\* What the widgets hand to one run of the script
TopicInputs == {"", "  ", " AI \n"}
TitleInputs == {"", " \t", " My Post "}
KeywordInputs == {"", " ", "ai", " ai ", "general topics"}
SliderValues == {100 + 50 * k : k \in 0..18}
SelectedModels == {MODEL_OPTIONS[1], MODEL_OPTIONS[2]}

\* The responses the script's calls are driven with
UIResponses ==
    {HttpResponse(200, "", Val(Completion(JString(" Hello blog \n")))),
     HttpResponse(200, "", Val(Completion(JString("Error handling tips")))),
     HttpResponse(401, "", Val(JObject([error |-> JString("Unauthorized")]))),
     HttpResponse(429, "", Val(JObject([error |-> JString("Too many requests")])))}

(***************************************************************************)
(* The state after the first run of the script: no call yet, the keyword   *)
(* list created empty, no results stored.  last is the button the latest   *)
(* run of the script handled (history only); peer is the activation of     *)
(* query_chat_api in a second session of the application.                  *)
(***************************************************************************)
Init ==
    /\ call = Idle
    /\ session = [keywords |-> <<>>]
    /\ origin = NoOrigin
    /\ last = "none"
    /\ peer = Idle

\* A mutant of Continue: the handler does not wait for the call, it stores
\* whatever the activation holds and lets it run on.
ContinueWithoutWaiting(c) ==
    CASE c.caller = "titles" ->
            /\ session' = Put(session, "title_results", c.result)
            /\ origin' = [origin EXCEPT !.title_results = c.kind]
            /\ call' = IF c.pc = "returned" THEN Idle ELSE c
      [] c.caller = "blog" ->
            /\ session' = Put(session, "blog_results",
                              [title |-> c.frame.title, content |-> c.result,
                               keywords |-> c.frame.keywords])
            /\ origin' = [origin EXCEPT !.blog_results = c.kind]
            /\ call' = IF c.pc = "returned" THEN Idle ELSE c
      [] OTHER ->
            /\ call' = c
            /\ UNCHANGED <<session, origin>>

(***************************************************************************)
(* The code after a call of the client returns.                            *)
(***************************************************************************)
\* The handler that called goes on with the activation c: the title handler
\* and the blog handler store the result and rerun the script (the locals of
\* the run are gone); a direct caller keeps what it got.
Continue(c) ==
    CASE c.caller = "titles" /\ c.pc = "returned" ->
            /\ session' = Put(session, "title_results", c.result)
            /\ origin' = [origin EXCEPT !.title_results = c.kind]
            /\ call' = Idle
      [] c.caller = "blog" /\ c.pc = "returned" ->
            /\ session' = Put(session, "blog_results",
                              [title |-> c.frame.title, content |-> c.result,
                               keywords |-> c.frame.keywords])
            /\ origin' = [origin EXCEPT !.blog_results = c.kind]
            /\ call' = Idle
      [] OTHER ->
            /\ call' = c
            /\ UNCHANGED <<session, origin>>

\* requests.post of the running activation comes back with response.
Respond(response) ==
    /\ call.pc = "running"
    /\ Continue(AttemptStep(call, response))
    /\ UNCHANGED <<last, peer>>

(***************************************************************************)
(* A direct caller of query_chat_api.                                      *)
(***************************************************************************)
DirectCall ==
    /\ call.pc # "running"
    /\ \E max_retries \in (-1)..MaxRetries :
          Continue(QueryChatApi("direct", NoFrame,
                                <<Message("user", "Hello")>>, MODEL_OPTIONS[1],
                                max_retries, DefaultTemperature, DefaultMaxTokens))
    /\ UNCHANGED <<last, peer>>

\* 200 with a completion
Receive200Ok ==
    /\ call.pc = "running"
    /\ \E r \in OkResponses : Respond(r)

\* 200 without a choice
Receive200Empty ==
    /\ call.pc = "running"
    /\ \E r \in EmptyResponses : Respond(r)

\* 200 with a body the extraction faults on
Receive200Broken ==
    /\ call.pc = "running"
    /\ \E r \in BrokenResponses : Respond(r)

Receive429 ==
    /\ call.pc = "running"
    /\ Respond(HttpResponse(429, "", Val(JObject([error |-> JString("Too many requests")]))))

Receive401 ==
    /\ call.pc = "running"
    /\ Respond(HttpResponse(401, "", Val(JObject([error |-> JString("Unauthorized")]))))

Receive503 ==
    /\ call.pc = "running"
    /\ Respond(HttpResponse(503, "", Val(JObject([error |-> JString("Model is loading")]))))

ReceiveOtherStatus ==
    /\ call.pc = "running"
    /\ \E r \in OtherResponses : Respond(r)

\* requests.post raises a Timeout
PostTimeout ==
    /\ call.pc = "running"
    /\ \E r \in TimeoutFaults : Respond(r)

\* requests.post raises a ConnectionError
PostConnectionError ==
    /\ call.pc = "running"
    /\ \E r \in ConnectionFaults : Respond(r)

\* requests.post raises something else
PostOtherFault ==
    /\ call.pc = "running"
    /\ \E r \in OtherFaults : Respond(r)

Next ==
    \/ DirectCall
    \/ Receive200Ok
    \/ Receive200Empty
    \/ Receive200Broken
    \/ Receive429
    \/ Receive401
    \/ Receive503
    \/ ReceiveOtherStatus
    \/ PostTimeout
    \/ PostConnectionError
    \/ PostOtherFault

Spec == Init /\ [][Next]_vars

(***************************************************************************)
(* The Streamlit script: one action per button, each a whole run of the    *)
(* script up to its st.rerun() or its end.                                 *)
(***************************************************************************)
\* "Clear All Cache" in the sidebar
ClearAllCache ==
    /\ call.pc # "running"
    /\ session' = Del(Del(session, "title_results"), "blog_results")
    /\ origin' = NoOrigin
    /\ call' = Idle
    /\ last' = "ClearAllCache"
    /\ UNCHANGED peer

\* A mutant of ClearTitles: the button clears the blog as well.
ClearTitlesAndBlog ==
    /\ call.pc # "running"
    /\ session' = Del(Del(session, "title_results"), "blog_results")
    /\ origin' = NoOrigin
    /\ call' = Idle
    /\ last' = "ClearTitles"
    /\ UNCHANGED peer

\* "Clear" next to "Generate Titles"
ClearTitles ==
    /\ call.pc # "running"
    /\ session' = Del(session, "title_results")
    /\ origin' = [origin EXCEPT !.title_results = "none"]
    /\ call' = Idle
    /\ last' = "ClearTitles"
    /\ UNCHANGED peer

\* A mutant of ClickGenerateTitles: the "if topic_name.strip()" test is
\* missing, whatever was typed is sent.
ClickGenerateTitlesUnguarded ==
    /\ call.pc # "running"
    /\ \E topic_name \in TopicInputs, selected_model \in SelectedModels :
          /\ Continue(generate_titles(Strip(topic_name), selected_model))
          /\ last' = "GenerateTitles"
    /\ UNCHANGED peer

\* "Generate Titles"
ClickGenerateTitles ==
    /\ call.pc # "running"
    /\ \E topic_name \in TopicInputs, selected_model \in SelectedModels :
          IF Strip(topic_name) # ""
          THEN /\ Continue(generate_titles(Strip(topic_name), selected_model))
               /\ last' = "GenerateTitles"
          ELSE /\ call' = Idle
               /\ last' = "RejectedTitles"
               /\ UNCHANGED <<session, origin>>
    /\ UNCHANGED peer

\* A mutant of AddKeyword: what was typed is tested and stored as typed,
\* without strip().
AddKeywordUntrimmed ==
    /\ call.pc # "running"
    /\ \E keyword_input \in KeywordInputs :
          /\ Len(session["keywords"]) < MaxKeywords
          /\ IF /\ keyword_input # ""
                /\ \A i \in 1..Len(session["keywords"]) :
                      session["keywords"][i] # keyword_input
             THEN session' = Put(session, "keywords",
                                 Append(session["keywords"], keyword_input))
             ELSE session' = session
    /\ call' = Idle
    /\ last' = "AddKeyword"
    /\ UNCHANGED <<origin, peer>>

\* "Add" next to the keyword input
AddKeyword ==
    /\ call.pc # "running"
    /\ \E keyword_input \in KeywordInputs :
          /\ Len(session["keywords"]) < MaxKeywords
          /\ IF /\ Strip(keyword_input) # ""
                /\ \A i \in 1..Len(session["keywords"]) :
                      session["keywords"][i] # Strip(keyword_input)
             THEN session' = Put(session, "keywords",
                                 Append(session["keywords"], Strip(keyword_input)))
             ELSE session' = session
    /\ call' = Idle
    /\ last' = "AddKeyword"
    /\ UNCHANGED <<origin, peer>>

\* "Clear All Keywords", shown only while the list is not empty
ClearAllKeywords ==
    /\ call.pc # "running"
    /\ session["keywords"] # <<>>
    /\ session' = Put(session, "keywords", <<>>)
    /\ call' = Idle
    /\ last' = "ClearAllKeywords"
    /\ UNCHANGED <<origin, peer>>

\* "Generate Blog"
ClickGenerateBlog ==
    /\ call.pc # "running"
    /\ \E title_of_the_blog \in TitleInputs, num_of_words \in SliderValues,
          selected_model \in SelectedModels :
          IF Strip(title_of_the_blog) # ""
          THEN LET formatted_keywords ==
                       IF session["keywords"] # <<>>
                       THEN Join(session["keywords"])
                       ELSE "general topics"
               IN  /\ Continue(generate_blog_content(
                          [title |-> Strip(title_of_the_blog),
                           keywords |-> formatted_keywords],
                          Strip(title_of_the_blog), formatted_keywords,
                          num_of_words, selected_model))
                   /\ last' = "GenerateBlog"
          ELSE /\ call' = Idle
               /\ last' = "RejectedBlog"
               /\ UNCHANGED <<session, origin>>
    /\ UNCHANGED peer

\* "Clear Blog"
ClearBlog ==
    /\ call.pc # "running"
    /\ session' = Del(session, "blog_results")
    /\ origin' = [origin EXCEPT !.blog_results = "none"]
    /\ call' = Idle
    /\ last' = "ClearBlog"
    /\ UNCHANGED peer

\* requests.post of the call the script is blocked in comes back
UIReceive ==
    /\ call.pc = "running"
    /\ \E r \in UIResponses : Respond(r)

UINext ==
    \/ ClearAllCache
    \/ ClearTitles
    \/ ClickGenerateTitles
    \/ AddKeyword
    \/ ClearAllKeywords
    \/ ClickGenerateBlog
    \/ ClearBlog
    \/ UIReceive

UISpec == Init /\ [][UINext]_vars

(***************************************************************************)
(* Vocabulary of the properties.                                           *)
(***************************************************************************)
\* The activation is a call of query_chat_api with max_retries >= 1.
ValidCall == call.caller = "direct" /\ call.max_retries >= 1

Returned == call.pc = "returned"

IsPost(i) == call.trace[i].ev = "post"

\* The tags of the responses of the attempts made so far, in order.
Tags == [i \in 1..Attempts(call) |-> Posts(call)[i].text]

\* t is c without its leading and trailing whitespace, said without Strip.
IsTrimOf(t, c) ==
    \E i \in 1..(Len(c) + 1) : \E j \in (i - 1)..Len(c) :
        /\ t = SubSeq(c, i, j)
        /\ \A k \in 1..(i - 1) : SubSeq(c, k, k) \in Whitespace
        /\ \A k \in (j + 1)..Len(c) : SubSeq(c, k, k) \in Whitespace
        /\ j >= i => /\ SubSeq(c, i, i) \notin Whitespace
                     /\ SubSeq(c, j, j) \notin Whitespace

\* The response is HTTP 200 with a non-empty choices array.
HasChoices(r) ==
    /\ ~r.raised /\ r.status = 200 /\ r.json.ok
    /\ r.json.val.t = "dict"
    /\ "choices" \in DOMAIN r.json.val.v
    /\ r.json.val.v["choices"].t = "list"
    /\ Len(r.json.val.v["choices"].v) > 0

\* ... whose first choice carries choices[0].message.content as text.
HasContent(r) ==
    /\ HasChoices(r)
    /\ LET first == r.json.val.v["choices"].v[1]
       IN  /\ first.t = "dict" /\ "message" \in DOMAIN first.v
           /\ first.v["message"].t = "dict"
           /\ "content" \in DOMAIN first.v["message"].v
           /\ first.v["message"].v["content"].t = "str"

ContentOf(r) == r.json.val.v["choices"].v[1].v["message"].v["content"].v

(***************************************************************************)
(* C1.  Whatever the attempts of a call with max_retries >= 1 come back    *)
(* with (any status, any body, a timeout, a connection failure, any other  *)
(* exception), no exception leaves query_chat_api, and what it returns is  *)
(* an Ok text or a Failed message.                                         *)
(***************************************************************************)
C1_NoFaultEscapes ==
    ValidCall =>
        /\ call.pc # "raised"
        /\ Returned => call.kind \in {"Ok", "Failed"}

\* A call that met a redirect fault, then a first choice without a message,
\* and returned the KeyError's text.
C1_Witness ==
    /\ ValidCall /\ Returned
    /\ Attempts(call) = 2
    /\ Tags = <<"TooManyRedirects", "200">>
    /\ call.kind = "Failed"
    /\ call.result = "Error: 'message'"

(***************************************************************************)
(* C2.  An attempt that receives HTTP 200 with a non-empty choices array   *)
(* carrying choices[0].message.content ends the call at once: it is the    *)
(* last thing the call does, and the call returns Ok with exactly that     *)
(* content without its surrounding whitespace.                             *)
(***************************************************************************)
C2_OkReturnsTrimmedContent ==
    ValidCall =>
        \A i \in 1..Len(call.trace) :
            (IsPost(i) /\ HasContent(call.trace[i].response)) =>
                /\ i = Len(call.trace)
                /\ Returned
                /\ call.kind = "Ok"
                /\ IsTrimOf(call.result, ContentOf(call.trace[i].response))

\* A completion padded with whitespace on both sides arrives on the second
\* attempt and is returned trimmed.
C2_Witness ==
    /\ ValidCall /\ Returned
    /\ Attempts(call) = 2
    /\ HasContent(Posts(call)[2].response)
    /\ ContentOf(Posts(call)[2].response) = " Hello blog \n"
    /\ call.result = "Hello blog"

(***************************************************************************)
(* C3.  An attempt that receives HTTP 401 is the last one whatever         *)
(* max_retries is: the call returns the invalid-token failure with no      *)
(* warning and no wait after it, and a 401 on the first attempt ends the   *)
(* call after exactly one attempt.                                         *)
(***************************************************************************)
C3_UnauthorizedIsTerminal ==
    ValidCall =>
        \A i \in 1..Len(call.trace) :
            (IsPost(i) /\ call.trace[i].text = "401") =>
                /\ i = Len(call.trace)
                /\ Returned
                /\ call.kind = "Failed"
                /\ call.result =
                     "Error: Invalid API token. Please check your Hugging Face API key."
                /\ i = 1 => Attempts(call) = 1

\* A 401 on the first of three allowed attempts.
C3_Witness ==
    /\ ValidCall /\ Returned
    /\ call.max_retries = 3
    /\ Tags = <<"401">>
    /\ Len(call.trace) = 1

(***************************************************************************)
(* C4.  If every attempt receives HTTP 429, the call returns the           *)
(* rate-limit failure after exactly max_retries attempts, having waited    *)
(* 3, 6, 9, ... between them: 3*(i+1) after 0-based attempt i, that is     *)
(* max_retries - 1 waits and none after the final attempt.                 *)
(***************************************************************************)
C4_RateLimitBackoff ==
    (ValidCall /\ \A i \in 1..Attempts(call) : Tags[i] = "429") =>
        /\ Waits(call) = [i \in 1..Len(Waits(call)) |-> 3 * i]
        /\ ~Returned => Len(Waits(call)) = Attempts(call)
        /\ Returned =>
              /\ call.kind = "Failed"
              /\ call.result =
                   "Error: Rate limit exceeded. Please wait a minute and try again."
              /\ Attempts(call) = call.max_retries
              /\ Len(Waits(call)) = call.max_retries - 1
              /\ call.trace[Len(call.trace)].ev = "post"

\* Three attempts, all rate limited, with waits of 3 and 6 between them.
C4_Witness ==
    /\ ValidCall /\ Returned
    /\ call.max_retries = 3
    /\ Tags = <<"429", "429", "429">>
    /\ Waits(call) = <<3, 6>>

(***************************************************************************)
(* C5.  An attempt that receives a status other than 200, 429, 401 and 503 *)
(* (500 and 502 among them) is never retried: it is the last thing the     *)
(* call does, and the call returns a failure that embeds the status code   *)
(* and the error payload of the body, or the raw body where the body has   *)
(* no such payload or cannot be parsed.                                    *)
(***************************************************************************)
\* The error payload of the body, else the raw text of the response.
PayloadOrBody(r) ==
    IF r.json.ok /\ r.json.val.t = "dict" /\ "error" \in DOMAIN r.json.val.v
    THEN r.json.val.v["error"].v
    ELSE r.text

\* C5: a response with any other status ends the call with the status and the payload or body.
C5_OtherStatusNeverRetried ==
    ValidCall =>
        \A i \in 1..Len(call.trace) :
            (/\ IsPost(i)
             /\ ~call.trace[i].response.raised
             /\ call.trace[i].response.status \notin {200, 429, 401, 503}) =>
                /\ i = Len(call.trace)
                /\ Returned
                /\ call.kind = "Failed"
                /\ call.result =
                     "Error: API returned status "
                        \o ToString(call.trace[i].response.status) \o " - "
                        \o PayloadOrBody(call.trace[i].response)

(***************************************************************************)
(* C6.  With max_retries = 1 the call makes one attempt, never warns and   *)
(* never waits; a retryable condition on that attempt (429, 503, a         *)
(* timeout, a connection failure, any other fault) makes it return the     *)
(* failure of that condition at once.                                      *)
(***************************************************************************)
\* The conditions the loop retries while attempts remain.
Retryable(r) ==
    \/ r.raised
    \/ r.status \in {429, 503}
    \/ r \in BrokenResponses

\* The failure a retryable condition ends in when no attempt remains.
IsFailureOf(text, r) ==
    CASE ~r.raised /\ r.status = 429 ->
            text = "Error: Rate limit exceeded. Please wait a minute and try again."
      [] ~r.raised /\ r.status = 503 ->
            text = "Error: Model is currently unavailable. Try a different model."
      [] r.raised /\ r.exc.class \in {"ReadTimeout", "ConnectTimeout"} ->
            text = "Error: Request timed out after multiple attempts."
      [] r.raised /\ r.exc.class = "ConnectionError" ->
            text = "Error: Could not connect to Hugging Face API. Check your internet connection."
      [] r.raised /\ r.exc.class = "TooManyRedirects" ->
            text = "Error: " \o r.exc.msg
      [] OTHER -> StartsWith(text, "Error: ")

\* C6: with max_retries = 1 there is one attempt, no warning and no wait.
C6_SingleAttemptNeverWaits ==
    (ValidCall /\ call.max_retries = 1) =>
        /\ Sleeps(call) = <<>>
        /\ Warnings(call) = <<>>
        /\ Attempts(call) <= 1
        /\ Attempts(call) = 1 =>
              /\ Returned
              /\ Retryable(call.trace[1].response) =>
                    /\ call.kind = "Failed"
                    /\ IsFailureOf(call.result, call.trace[1].response)

\* A single allowed attempt meets a loading model.
C6_Witness ==
    /\ ValidCall /\ Returned
    /\ call.max_retries = 1
    /\ Tags = <<"503">>
    /\ call.trace = <<PostEvent(0, Posts(call)[1].response)>>
    /\ call.kind = "Failed"

(***************************************************************************)
(* C7.  A call with max_retries >= 1 makes at least one and at most        *)
(* max_retries attempts and at most max_retries - 1 waits; every wait      *)
(* stands between two attempts and none follows the last one; and every    *)
(* step of a running call makes one more attempt and either returns or     *)
(* moves to the next attempt index, which stays below max_retries, so the  *)
(* call ends.                                                              *)
(***************************************************************************)
C7_Bounds ==
    ValidCall =>
        /\ Attempts(call) <= call.max_retries
        /\ Len(Waits(call)) <= call.max_retries - 1
        /\ call.trace # <<>> => call.trace[1].ev = "post"
        /\ call.pc = "running" =>
              /\ call.attempt < call.max_retries
              /\ call.attempt = Attempts(call)
              /\ Len(Waits(call)) = Attempts(call)
        /\ Returned =>
              /\ Attempts(call) >= 1
              /\ call.trace[Len(call.trace)].ev = "post"
              /\ Len(Waits(call)) = Attempts(call) - 1
        /\ \A i \in 1..Len(call.trace) :
              call.trace[i].ev = "sleep" =>
                 \/ i < Len(call.trace) /\ call.trace[i + 1].ev = "post"
                 \/ i = Len(call.trace) /\ call.pc = "running"

C7_Progress ==
    (call.pc = "running" /\ call.max_retries >= 1) =>
        /\ Attempts(call') = Attempts(call) + 1
        /\ \/ call'.pc = "returned"
           \/ call'.pc = "running" /\ call'.attempt = call.attempt + 1

\* C7: the bounds hold in every state and every step of a running call makes progress.
C7_BoundedAttempts == [](C7_Bounds) /\ [][C7_Progress]_vars

\* A call that used all three attempts and waited twice, between them.
C7_Witness ==
    /\ ValidCall /\ Returned
    /\ call.max_retries = 3
    /\ Attempts(call) = 3
    /\ Len(Waits(call)) = 2
    /\ Tags = <<"503", "ReadTimeout", "ConnectionError">>

(***************************************************************************)
(* C8.  A stored result is shown as an error notice exactly when the       *)
(* client call that produced it ended in Failed: every Failed message is   *)
(* shown as an error, and no Ok text is.                                   *)
(***************************************************************************)
C8_ErrorNoticeIffFailed ==
    /\ Has("title_results") =>
          (TitleShownAsError <=> origin.title_results = "Failed")
    /\ Has("blog_results") =>
          (BlogShownAsError <=> origin.blog_results = "Failed")

(***************************************************************************)
(* C9.  If every attempt receives HTTP 503, the call returns the           *)
(* model-unavailable failure after exactly max_retries attempts, having    *)
(* waited 5 between each two consecutive attempts, whatever their index.   *)
(***************************************************************************)
C9_ModelLoadingFixedWait ==
    (ValidCall /\ \A i \in 1..Attempts(call) : Tags[i] = "503") =>
        /\ Waits(call) = [i \in 1..Len(Waits(call)) |-> 5]
        /\ ~Returned => Len(Waits(call)) = Attempts(call)
        /\ Returned =>
              /\ call.kind = "Failed"
              /\ call.result =
                   "Error: Model is currently unavailable. Try a different model."
              /\ Attempts(call) = call.max_retries
              /\ Len(Waits(call)) = call.max_retries - 1
              /\ call.trace[Len(call.trace)].ev = "post"

\* Three attempts, all answered 503, with two waits of 5.
C9_Witness ==
    /\ ValidCall /\ Returned
    /\ call.max_retries = 3
    /\ Tags = <<"503", "503", "503">>
    /\ Waits(call) = <<5, 5>>

(***************************************************************************)
(* C10.  If every attempt ends in a network timeout, the call returns the  *)
(* timed-out failure after exactly max_retries attempts, having waited 3   *)
(* between each two consecutive attempts.                                  *)
(***************************************************************************)
C10_TimeoutFixedWait ==
    (ValidCall /\ \A i \in 1..Attempts(call) :
                      Tags[i] \in {"ReadTimeout", "ConnectTimeout"}) =>
        /\ Waits(call) = [i \in 1..Len(Waits(call)) |-> 3]
        /\ ~Returned => Len(Waits(call)) = Attempts(call)
        /\ Returned =>
              /\ call.kind = "Failed"
              /\ call.result = "Error: Request timed out after multiple attempts."
              /\ Attempts(call) = call.max_retries
              /\ Len(Waits(call)) = call.max_retries - 1
              /\ call.trace[Len(call.trace)].ev = "post"

\* Three attempts, a read timeout and two connect timeouts, two waits of 3.
C10_Witness ==
    /\ ValidCall /\ Returned
    /\ call.max_retries = 3
    /\ Tags = <<"ReadTimeout", "ConnectTimeout", "ConnectTimeout">>
    /\ Waits(call) = <<3, 3>>

(***************************************************************************)
(* C11.  An attempt answered HTTP 200 with a body whose choices array is   *)
(* empty, or which has no choices member at all, ends the call on that     *)
(* attempt with the failure "Error: No response generated": it is the last *)
(* event of the call, no warning or wait follows it, and this holds at any *)
(* attempt index and for any max_retries >= 1.                             *)
(***************************************************************************)
EmptyOrMissingChoices(r) ==
    /\ ~r.raised /\ r.status = 200 /\ r.json.ok
    /\ \/ /\ r.json.val.t = "dict"
          /\ "choices" \notin DOMAIN r.json.val.v
       \/ /\ r.json.val.t = "dict"
          /\ "choices" \in DOMAIN r.json.val.v
          /\ r.json.val.v["choices"].t = "list"
          /\ r.json.val.v["choices"].v = <<>>
       \/ /\ r.json.val.t = "list"
          /\ \A i \in 1..Len(r.json.val.v) :
                r.json.val.v[i] # JString("choices")

C11_EmptyChoicesIsTerminal ==
    ValidCall =>
        \A i \in 1..Len(call.trace) :
            (IsPost(i) /\ EmptyOrMissingChoices(call.trace[i].response)) =>
                /\ i = Len(call.trace)
                /\ Returned
                /\ call.kind = "Failed"
                /\ call.result = "Error: No response generated"

\* A rate-limited first attempt, then a 200 without a choices member on the
\* second of three attempts: the call is over with one attempt unused.
C11_Witness ==
    /\ ValidCall /\ Returned
    /\ call.max_retries = 3
    /\ Attempts(call) = 2
    /\ Tags[1] = "429"
    /\ Posts(call)[2].response = HttpResponse(200, "", Val(JObject([id |-> JString("x")])))
    /\ call.result = "Error: No response generated"
    /\ Waits(call) = <<3>>

(***************************************************************************)
(* C12.  In every call with max_retries >= 1: a warning is emitted only    *)
(* right after an attempt that is not the last one and that met a          *)
(* retryable condition (429, 503, timeout, connection failure, unexpected  *)
(* fault), never after an attempt with a terminal outcome; it is followed  *)
(* by exactly one wait and then the next attempt; it reports attempt       *)
(* number attempt_index + 1 out of max_retries; and the warnings and the   *)
(* waits both number one per attempt retried, attempts - 1 once the call   *)
(* has returned after its last attempt.                                    *)
(***************************************************************************)
EndsWith(text, suffix) ==
    /\ Len(text) >= Len(suffix)
    /\ SubSeq(text, Len(text) - Len(suffix) + 1, Len(text)) = suffix

C12_WarningsAdvisory ==
    ValidCall =>
        /\ \A i \in 1..Len(call.trace) :
              call.trace[i].ev = "warning" =>
                /\ i > 1 /\ i < Len(call.trace)
                /\ IsPost(i - 1)
                /\ call.trace[i - 1].n = call.trace[i].n
                /\ Retryable(call.trace[i - 1].response)
                /\ call.trace[i].n + 1 < call.max_retries
                /\ call.trace[i + 1].ev = "sleep"
                /\ EndsWith(call.trace[i].text,
                            "(Attempt " \o ToString(call.trace[i].n + 1) \o "/"
                               \o ToString(call.max_retries) \o ")")
        /\ \A i \in 1..Len(call.trace) :
              call.trace[i].ev = "sleep" =>
                /\ i > 1 /\ call.trace[i - 1].ev = "warning"
                /\ (i < Len(call.trace) =>
                        /\ IsPost(i + 1)
                        /\ call.trace[i + 1].n = call.trace[i - 1].n + 1)
        /\ Len(Warnings(call)) = Len(Sleeps(call))
        /\ ~Returned => Len(Warnings(call)) = Attempts(call)
        /\ Returned => Len(Warnings(call)) = Attempts(call) - 1

(***************************************************************************)
(* C17.  In a call whose attempts met retryable conditions of any kinds in *)
(* any order, the k-th wait is fixed by the condition and the index of the *)
(* k-th attempt alone (429: 3 * (attempt_index + 1), whatever the earlier  *)
(* attempts met; 503: 5; timeout: 3; connection failure: 3; any other      *)
(* fault: 2), the call returns after exactly max_retries attempts, and the *)
(* failure it returns is the one of the condition of the last attempt.     *)
(***************************************************************************)
WaitAfter(r, attempt_index) ==
    CASE ~r.raised /\ r.status = 429 -> 3 * (attempt_index + 1)
      [] ~r.raised /\ r.status = 503 -> 5
      [] r.raised /\ r.exc.class \in {"ReadTimeout", "ConnectTimeout"} -> 3
      [] r.raised /\ r.exc.class = "ConnectionError" -> 3
      [] OTHER -> 2

C17_MixedConditions ==
    (ValidCall /\ \A i \in 1..Attempts(call) :
                      Retryable(Posts(call)[i].response)) =>
        /\ \A k \in 1..Len(Waits(call)) :
              Waits(call)[k] = WaitAfter(Posts(call)[k].response, k - 1)
        /\ ~Returned => Len(Waits(call)) = Attempts(call)
        /\ Returned =>
              /\ Attempts(call) = call.max_retries
              /\ Len(Waits(call)) = call.max_retries - 1
              /\ call.kind = "Failed"
              /\ IsFailureOf(call.result,
                             Posts(call)[Attempts(call)].response)

\* An unexpected fault, then a rate limit, then a connection failure: the
\* rate limit at index 1 waits 6 although it is the first 429 of the call,
\* and the failure is that of the connection failure.
C17_Witness ==
    /\ ValidCall /\ Returned
    /\ call.max_retries = 3
    /\ Tags = <<"TooManyRedirects", "429", "ConnectionError">>
    /\ Waits(call) = <<2, 6>>
    /\ call.result =
         "Error: Could not connect to Hugging Face API. Check your internet connection."

(***************************************************************************)
(* C18.  A call returns "Error: All retry attempts failed." exactly when   *)
(* its max_retries is zero or negative: with max_retries >= 1 the last     *)
(* attempt always returns an outcome of its own, and with max_retries <= 0 *)
(* the call returns the fallback having sent no request, emitted no        *)
(* warning and waited not at all.                                          *)
(***************************************************************************)
C18_FallbackOnlyWithoutAttempts ==
    (call.caller = "direct" /\ Returned) =>
        /\ call.result = "Error: All retry attempts failed."
              <=> call.max_retries <= 0
        /\ call.max_retries >= 1 => Attempts(call) >= 1
        /\ call.max_retries <= 0 =>
              /\ call.kind = "Failed"
              /\ call.trace = <<>>

\* A call with max_retries = 0 has returned the fallback with an empty trace.
C18_Witness ==
    /\ call.caller = "direct" /\ Returned
    /\ call.max_retries = 0
    /\ call.result = "Error: All retry attempts failed."
    /\ call.trace = <<>>

(***************************************************************************)
(* C13.  Over any sequence of UI actions: the topic inside the request of  *)
(* a title call and the title of a blog call are never empty or            *)
(* whitespace-only; a click on "Generate Titles" or "Generate Blog" with   *)
(* such an input starts no call and leaves st.session_state as it was; and *)
(* no step that neither ends nor leaves a call in flight writes a stored   *)
(* result.                                                                 *)
(***************************************************************************)
Blank(text) == \A k \in 1..Len(text) : SubSeq(text, k, k) \in Whitespace

TitlesPromptHead ==
    "Generate 10 creative, attention-grabbing blog post titles about '"

TitlesPromptTail ==
    "'. Target audience: beginners and tech enthusiasts. Format: numbered list 1-10, no explanations."

BlogPromptHead ==
    "Write a comprehensive blog post with the following specifications:\n\nTitle: "

\* The topic a title request was built from, cut out of its user message.
TopicOf(c) ==
    LET content == c.payload.messages[2].content
    IN  SubSeq(content, Len(TitlesPromptHead) + 1,
               Len(content) - Len(TitlesPromptTail))

C13_NoCallOnBlankInput ==
    /\ call.caller = "titles" =>
          /\ StartsWith(call.payload.messages[2].content, TitlesPromptHead)
          /\ EndsWith(call.payload.messages[2].content, TitlesPromptTail)
          /\ ~Blank(TopicOf(call))
    /\ call.caller = "blog" =>
          /\ ~Blank(call.frame.title)
          /\ StartsWith(call.payload.messages[2].content,
                        BlogPromptHead \o call.frame.title
                           \o "\nKeywords to include: ")

C13_RejectedClickChangesNothing ==
    /\ last' \in {"RejectedTitles", "RejectedBlog"} =>
          /\ call'.pc = "idle"
          /\ session' = session
    /\ (call.pc # "running" /\ call'.pc # "running") =>
          \A key \in {"title_results", "blog_results"} :
              key \in DOMAIN session' =>
                  /\ key \in DOMAIN session
                  /\ session'[key] = session[key]

C13_CallersRejectBlankInput ==
    /\ []C13_NoCallOnBlankInput
    /\ [][C13_RejectedClickChangesNothing]_vars

\* A click on "Generate Blog" with a blank title has just been turned down
\* while titles and a blog were stored: no call, both results still there.
C13_Witness ==
    /\ last = "RejectedBlog"
    /\ call.pc = "idle"
    /\ Has("title_results") /\ Has("blog_results")

(***************************************************************************)
(* generate_blog_content called on its own, with lengths the slider offers *)
(* and lengths beyond it, next to the "Generate Blog" button.              *)
(***************************************************************************)
BlogLengths == SliderValues \cup {1050, 1200}

DirectBlogCall ==
    /\ call.pc # "running"
    /\ \E blog_length \in BlogLengths, model \in SelectedModels :
          Continue([generate_blog_content(NoFrame, "My Post", "general topics",
                                          blog_length, model)
                      EXCEPT !.caller = "direct"])
    /\ UNCHANGED <<last, peer>>

BlogNext == DirectBlogCall \/ ClickGenerateBlog \/ UIReceive

BlogSpec == Init /\ [][BlogNext]_vars

(***************************************************************************)
(* C14.  Every request generate_blog_content builds for a word count wc    *)
(* carries max_tokens = 2 * wc when that is at most 2000 and 2000          *)
(* otherwise (400 gives 800, 1200 gives 2000) and temperature 0.7; for the *)
(* word counts of the slider (100 to 1000 in steps of 50), the only ones   *)
(* the button passes, max_tokens is positive and at most 2000.             *)
(***************************************************************************)
BlogSystemHead ==
    "You are a professional blog writer. Write informative, engaging, and well-structured blog posts of approximately "

IsBlogRequest(c) ==
    /\ c.pc # "idle"
    /\ StartsWith(c.payload.messages[1].content, BlogSystemHead)

OnSlider(wc) == wc >= 100 /\ wc <= 1000 /\ wc % 50 = 0

C14_BlogMaxTokens ==
    IsBlogRequest(call) =>
        \E wc \in 1..1200 :
            /\ call.payload.messages[1].content =
                  BlogSystemHead \o ToString(wc) \o " words."
            /\ call.payload.max_tokens = IF 2 * wc <= 2000 THEN 2 * wc ELSE 2000
            /\ call.payload.temperature = 7
            /\ call.caller = "blog" => OnSlider(wc)
            /\ OnSlider(wc) => /\ call.payload.max_tokens > 0
                               /\ call.payload.max_tokens <= 2000
            /\ wc = 400 => call.payload.max_tokens = 800
            /\ wc = 1200 => call.payload.max_tokens = 2000

\* A request for 1200 words has been sent with max_tokens 2000.
C14_Witness ==
    /\ IsBlogRequest(call)
    /\ call.payload.messages[1].content = BlogSystemHead \o "1200 words."
    /\ call.payload.max_tokens = 2000
    /\ Attempts(call) >= 1

(***************************************************************************)
(* C15.  In the UI, a call starts only by an accepted click, at attempt 0  *)
(* and without touching st.session_state; while it is in flight no other   *)
(* button is handled, st.session_state does not change and the request     *)
(* stays the one of the click; the step in which it returns stores what it *)
(* returned under the key of its caller (title_results for titles,         *)
(* blog_results with the title and keywords of the click for the blog);    *)
(* and no other step writes a stored result.                               *)
(***************************************************************************)
\* What the running call returns when its pending attempt is answered r.
ResolvesWith(r) == AttemptStep(call, r)

C15_Start ==
    (call.pc # "running" /\ call'.pc = "running") =>
        /\ last' \in {"GenerateTitles", "GenerateBlog"}
        /\ call'.caller = (IF last' = "GenerateTitles" THEN "titles" ELSE "blog")
        /\ call'.attempt = 0 /\ call'.trace = <<>>
        /\ session' = session

C15_InFlight ==
    (call.pc = "running" /\ call'.pc = "running") =>
        /\ call'.caller = call.caller
        /\ call'.payload = call.payload
        /\ call'.frame = call.frame
        /\ call'.attempt = call.attempt + 1
        /\ session' = session
        /\ last' = last

C15_Resolve ==
    (call.pc = "running" /\ call'.pc # "running") =>
        /\ last' = last
        /\ \E r \in UIResponses :
              /\ ResolvesWith(r).pc = "returned"
              /\ ResolvesWith(r).kind \in {"Ok", "Failed"}
              /\ call.caller = "titles" =>
                    /\ DOMAIN session' = DOMAIN session \cup {"title_results"}
                    /\ session'["title_results"] = ResolvesWith(r).result
                    /\ \A key \in DOMAIN session \ {"title_results"} :
                          session'[key] = session[key]
              /\ call.caller = "blog" =>
                    /\ DOMAIN session' = DOMAIN session \cup {"blog_results"}
                    /\ session'["blog_results"] =
                          [title |-> call.frame.title,
                           content |-> ResolvesWith(r).result,
                           keywords |-> call.frame.keywords]
                    /\ \A key \in DOMAIN session \ {"blog_results"} :
                          session'[key] = session[key]

C15_WrittenOnlyOnReturn ==
    \A key \in {"title_results", "blog_results"} :
        (/\ key \in DOMAIN session'
         /\ (key \in DOMAIN session => session'[key] # session[key])) =>
            /\ call.pc = "running" /\ call'.pc = "idle"
            /\ call.caller = (IF key = "title_results" THEN "titles" ELSE "blog")

C15_OneBlockingCallPerClick ==
    [][C15_Start /\ C15_InFlight /\ C15_Resolve /\ C15_WrittenOnlyOnReturn]_vars

\* A title call that was rate limited three times has returned, and its
\* failure is what title_results holds.
C15_Witness ==
    /\ call.pc = "idle" /\ last = "GenerateTitles"
    /\ Has("title_results")
    /\ session["title_results"] =
         "Error: Rate limit exceeded. Please wait a minute and try again."
    /\ origin.title_results = "Failed"

(***************************************************************************)
(* Two sessions of the application, each with an activation of             *)
(* query_chat_api of its own (call and peer), whose attempts interleave in *)
(* any order.                                                              *)
(***************************************************************************)
PairResponses ==
    {HttpResponse(200, "", Val(Completion(JString(" Hello blog \n")))),
     HttpResponse(401, "", Val(JObject([error |-> JString("Unauthorized")]))),
     HttpResponse(429, "", Val(JObject([error |-> JString("Too many requests")]))),
     HttpResponse(503, "", Val(JObject([error |-> JString("Model is loading")]))),
     PostRaised("ReadTimeout", "Read timed out. (read timeout=60)")}

PairReceive ==
    /\ call.pc = "running"
    /\ \E r \in PairResponses : Respond(r)

PeerCall ==
    /\ peer.pc # "running"
    /\ \E max_retries \in 1..MaxRetries :
          peer' = QueryChatApi("direct", NoFrame,
                               <<Message("user", "Hello from the peer")>>,
                               MODEL_OPTIONS[2], max_retries,
                               DefaultTemperature, DefaultMaxTokens)
    /\ UNCHANGED <<call, session, origin, last>>

PeerReceive ==
    /\ peer.pc = "running"
    /\ \E r \in PairResponses : peer' = AttemptStep(peer, r)
    /\ UNCHANGED <<call, session, origin, last>>

PairNext == DirectCall \/ PairReceive \/ PeerCall \/ PeerReceive

PairSpec == Init /\ [][PairNext]_vars

(***************************************************************************)
(* C16.  Whatever the interleaving of the attempts of two calls, each call *)
(* numbers its attempts from 0 and is, at every moment, in the state a     *)
(* call with the same arguments run alone reaches on the same sequence of  *)
(* responses: same attempt count, same warnings and waits, same result.    *)
(* No step of one call changes the other.                                  *)
(***************************************************************************)
\* The activation a call with the arguments of c starts from when run alone.
Fresh(c) ==
    [pc |-> IF c.max_retries >= 1 THEN "running" ELSE "returned",
     caller |-> c.caller, max_retries |-> c.max_retries, attempt |-> 0,
     payload |-> c.payload, frame |-> c.frame, trace |-> <<>>,
     result |-> IF c.max_retries >= 1 THEN ""
                ELSE "Error: All retry attempts failed.",
     kind |-> IF c.max_retries >= 1 THEN "none" ELSE "Failed"]

RECURSIVE Replay(_, _)
Replay(c, posts) ==
    IF posts = <<>> THEN c
    ELSE Replay(AttemptStep(c, Head(posts).response), Tail(posts))

Alone(c) == Replay(Fresh(c), Posts(c))

C16_EqualsAlone ==
    \A c \in {call, peer} :
        c.pc # "idle" =>
            /\ c = Alone(c)
            /\ \A i \in 1..Attempts(c) : Posts(c)[i].n = i - 1
            /\ c.pc = "running" => c.attempt = Attempts(c)

C16_OneAtATime == call' = call \/ peer' = peer

C16_CallsIndependent ==
    /\ []C16_EqualsAlone
    /\ [][C16_OneAtATime]_vars

\* Both calls are in flight at once, one about to make its third attempt
\* after a rate limit and a loading model, the other its second after a
\* timeout.
C16_Witness ==
    /\ call.pc = "running" /\ peer.pc = "running"
    /\ Tags = <<"429", "503">> /\ Waits(call) = <<3, 5>>
    /\ Attempts(peer) = 1 /\ Posts(peer)[1].text = "ReadTimeout"
    /\ Waits(peer) = <<3>>

(***************************************************************************)
(* C19.  After any sequence of UI actions the keyword list has no two      *)
(* equal entries and no empty or whitespace-only entry, and every entry    *)
(* begins and ends with a non-whitespace character; a step either leaves   *)
(* the list as it is, empties it, or appends one entry that was not in it, *)
(* so entries stand in the order they were first added and adding an empty *)
(* or present keyword changes nothing; and a blog call is passed the       *)
(* entries joined by ", " when the list is not empty and the text          *)
(* "general topics" when it is empty.                                      *)
(***************************************************************************)
RECURSIVE CommaJoined(_, _)
\* The first n entries of keywords, separated by ", ", built from the left.
CommaJoined(keywords, n) ==
    IF n = 1 THEN keywords[1]
    ELSE CommaJoined(keywords, n - 1) \o ", " \o keywords[n]

C19_ListWellFormed ==
    LET keywords == session["keywords"]
    IN  /\ \A i \in 1..Len(keywords) :
              /\ ~Blank(keywords[i])
              /\ SubSeq(keywords[i], 1, 1) \notin Whitespace
              /\ SubSeq(keywords[i], Len(keywords[i]), Len(keywords[i]))
                    \notin Whitespace
        /\ \A i, j \in 1..Len(keywords) : i # j => keywords[i] # keywords[j]

C19_ListStep ==
    LET keywords == session["keywords"]
    IN  \/ session'["keywords"] = keywords
        \/ session'["keywords"] = <<>>
        \/ /\ Len(session'["keywords"]) = Len(keywords) + 1
           /\ SubSeq(session'["keywords"], 1, Len(keywords)) = keywords
           /\ last' = "AddKeyword"

C19_KeywordsPassed ==
    call.caller = "blog" =>
        /\ call.frame.keywords =
              IF session["keywords"] = <<>> THEN "general topics"
              ELSE CommaJoined(session["keywords"], Len(session["keywords"]))
        /\ StartsWith(call.payload.messages[2].content,
                      BlogPromptHead \o call.frame.title
                         \o "\nKeywords to include: " \o call.frame.keywords
                         \o "\nTarget length: ")

C19_KeywordList ==
    /\ [](C19_ListWellFormed /\ C19_KeywordsPassed)
    /\ [][C19_ListStep]_vars

\* A blog call made with two keywords, the first of them the very text
\* used for an empty list.
C19_Witness ==
    /\ call.caller = "blog"
    /\ session["keywords"] = <<"general topics", "ai">>
    /\ call.frame.keywords = "general topics, ai"

\* The claim as stated: "general topics" is passed exactly when the list is
\* empty.
C19_GeneralTopicsIffEmpty ==
    call.caller = "blog" =>
        (call.frame.keywords = "general topics" <=> session["keywords"] = <<>>)

C19_AsStated ==
    /\ [](C19_ListWellFormed /\ C19_GeneralTopicsIffEmpty)
    /\ [][C19_ListStep]_vars

(***************************************************************************)
(* C20.  A run of the script that handles "Clear All Cache" removes        *)
(* title_results and blog_results and nothing else; "Clear" removes        *)
(* title_results and nothing else; "Clear Blog" removes blog_results and   *)
(* nothing else; "Clear All Keywords" sets the keyword list to empty and   *)
(* changes nothing else.  Every other key keeps its value, so each of them *)
(* leaves st.session_state as it was when its target is already absent,    *)
(* and none of them starts a call.                                         *)
(***************************************************************************)
\* st.session_state after the step is what it was without the keys gone.
Removes(gone) ==
    /\ DOMAIN session' = DOMAIN session \ gone
    /\ \A key \in DOMAIN session' : session'[key] = session[key]

C20_ClearStep ==
    call.pc # "running" =>
        /\ last' = "ClearAllCache" =>
              /\ Removes({"title_results", "blog_results"})
              /\ (~Has("title_results") /\ ~Has("blog_results"))
                    => session' = session
        /\ last' = "ClearTitles" =>
              /\ Removes({"title_results"})
              /\ ~Has("title_results") => session' = session
        /\ last' = "ClearBlog" =>
              /\ Removes({"blog_results"})
              /\ ~Has("blog_results") => session' = session
        /\ last' = "ClearAllKeywords" =>
              /\ DOMAIN session' = DOMAIN session
              /\ session'["keywords"] = <<>>
              /\ \A key \in DOMAIN session \ {"keywords"} :
                    session'[key] = session[key]
        /\ last' \in {"ClearAllCache", "ClearTitles", "ClearBlog",
                      "ClearAllKeywords"} => call'.pc = "idle"

C20_ClearsOnlyWhatTheyName == [][C20_ClearStep]_vars

\* "Clear" has been handled: the titles are gone, the blog and the keywords
\* are still there.
C20_Witness ==
    /\ last = "ClearTitles"
    /\ ~Has("title_results")
    /\ Has("blog_results")
    /\ session["keywords"] = <<"ai", "general topics">>

====
